---- MODULE Spec2Model ----
(***************************************************************************)
(* Model of the wiki knowledge store of src/src/rlm/wiki.py (class Wiki)   *)
(* and of the read-only viewer thread of src/src/rlm/web.py that polls     *)
(* Wiki.export() while the single writer mutates the store.  Spec is the   *)
(* store under its single writer, SpecPolled the writer beside the viewer, *)
(* SpecSearch the store under search, SpecScore the BM25 score of a term.  *)
(*                                                                         *)
(* Texts are sequences of one-character strings, tokens are sequences of   *)
(* lower-case characters, Python sets are sets, sorted() lists are         *)
(* sequences.  None is the Python value None of an omitted argument.       *)
(***************************************************************************)
EXTENDS Integers, Sequences, FiniteSets, TLC

VARIABLES
    pages,            \* Wiki._pages: title -> WikiPage record
    iteration,        \* Wiki._iteration
    inverted_index,   \* Wiki._inverted_index: token -> set of titles
    doc_lengths,      \* Wiki._doc_lengths: title -> number of tokens
    avg_doc_length,   \* Wiki._avg_doc_length, the rational num/den
    last,             \* the call the writer has just made and its outcome, or Idle
    slots,            \* the key slots of Wiki._pages, in insertion order, as an
                      \* iterator running beside the writer finds them
    writer,           \* the writer's place inside the call it is making
    viewer,           \* the viewer thread's place inside Wiki.export()
    instants          \* the pages as they were between two complete calls,
                      \* from the last such instant before export() began

store == <<pages, inverted_index, doc_lengths, avg_doc_length>>
threads == <<slots, writer, viewer, instants>>
vars == <<pages, iteration, inverted_index, doc_lengths, avg_doc_length, last, threads>>

----------------------------------------------------------------------------
(* Inputs of the calls *)

\* an optional argument: None, or Some(x)
None == <<>>
Some(x) == <<x>>

Titles == {"p1", "p2"}
TagSets == {{}, {"finding"}}

\* longest page body the model lets update(append=...) build
MaxLen == 3

TextIn == {<<"a">>, <<"B", "!", "a">>}
AppendIn == {<<" ", "b">>}
Iterations == {0, 1}

Opt(S) == {None} \cup {Some(x) : x \in S}

\* the strings of the model in the order Python's str comparison gives them
Lex == <<"finding", "p1", "p2">>

----------------------------------------------------------------------------
(* Wiki._tokenize: re.findall(r'\w+', text.lower()) *)

lower(ch) ==
    CASE ch = "A" -> "a"
      [] ch = "B" -> "b"
      [] OTHER -> ch

IsWordChar(ch) == ch \in {"a", "b", "A", "B", "_", "1"}

RECURSIVE FindAllWords(_, _, _, _)
FindAllWords(text, i, cur, acc) ==
    IF i > Len(text)
    THEN IF cur = <<>> THEN acc ELSE Append(acc, cur)
    ELSE IF IsWordChar(text[i])
         THEN FindAllWords(text, i + 1, Append(cur, text[i]), acc)
         ELSE FindAllWords(text, i + 1, <<>>,
                           IF cur = <<>> THEN acc ELSE Append(acc, cur))

tokenize(text) ==
    FindAllWords([i \in 1..Len(text) |-> lower(text[i])], 1, <<>>, <<>>)

TokenSet(text) == {tokenize(text)[i] : i \in 1..Len(tokenize(text))}

----------------------------------------------------------------------------
(* sorted(): the elements of a set of strings as an ascending list *)

\* a sorted() that hands the elements back in descending order
sorted_descending(S) ==
    LET asc == SelectSeq(Lex, LAMBDA x : x \in S)
    IN [i \in 1..Len(asc) |-> asc[Len(asc) + 1 - i]]

sorted(S) == SelectSeq(Lex, LAMBDA x : x \in S)

----------------------------------------------------------------------------
(* The BM25 index internals *)

RECURSIVE SumOver(_, _)
SumOver(f, S) ==
    IF S = {} THEN 0
    ELSE LET x == CHOOSE y \in S : TRUE IN f[x] + SumOver(f, S \ {x})

\* sum(self._doc_lengths.values()) / len(self._doc_lengths), or 0.0
Mean(dl) ==
    IF DOMAIN dl = {} THEN [num |-> 0, den |-> 1]
    ELSE [num |-> SumOver(dl, DOMAIN dl), den |-> Cardinality(DOMAIN dl)]

Index(inv, dl, avg) == [inverted_index |-> inv, doc_lengths |-> dl, avg_doc_length |-> avg]

\* a _remove_from_index that keeps the average it finds when no length is left
remove_from_index_stale_average(ix, title) ==
    LET dl == [u \in DOMAIN ix.doc_lengths \ {title} |-> ix.doc_lengths[u]]
        discarded == [w \in DOMAIN ix.inverted_index |-> ix.inverted_index[w] \ {title}]
        empty_terms == {w \in DOMAIN discarded : discarded[w] = {}}
        inv == [w \in DOMAIN discarded \ empty_terms |-> discarded[w]]
    IN Index(inv, dl, IF DOMAIN dl # {} THEN Mean(dl) ELSE ix.avg_doc_length)

\* a _remove_from_index that does not delete the terms left without a title
remove_from_index_unpruned(ix, title) ==
    LET dl == [u \in DOMAIN ix.doc_lengths \ {title} |-> ix.doc_lengths[u]]
        discarded == [w \in DOMAIN ix.inverted_index |-> ix.inverted_index[w] \ {title}]
    IN Index(discarded, dl, Mean(dl))

\* Wiki._remove_from_index
remove_from_index(ix, title) ==
    LET dl == [u \in DOMAIN ix.doc_lengths \ {title} |-> ix.doc_lengths[u]]
        discarded == [w \in DOMAIN ix.inverted_index |-> ix.inverted_index[w] \ {title}]
        empty_terms == {w \in DOMAIN discarded : discarded[w] = {}}
        inv == [w \in DOMAIN discarded \ empty_terms |-> discarded[w]]
    IN Index(inv, dl, Mean(dl))

\* an _index_page that leaves the page's earlier postings in the index
index_page_over_old(ix, title, content) ==
    LET tokens == tokenize(content)
        dl == [u \in DOMAIN ix.doc_lengths \cup {title} |->
                 IF u = title THEN Len(tokens) ELSE ix.doc_lengths[u]]
        toks == {tokens[i] : i \in 1..Len(tokens)}
        inv == [w \in DOMAIN ix.inverted_index \cup toks |->
                 IF w \in toks
                 THEN (IF w \in DOMAIN ix.inverted_index
                       THEN ix.inverted_index[w] ELSE {}) \cup {title}
                 ELSE ix.inverted_index[w]]
    IN Index(inv, dl, Mean(dl))

\* Wiki._index_page
index_page(ix, title, content) ==
    LET removed == remove_from_index(ix, title)
        tokens == tokenize(content)
        dl == [u \in DOMAIN removed.doc_lengths \cup {title} |->
                 IF u = title THEN Len(tokens) ELSE removed.doc_lengths[u]]
        toks == {tokens[i] : i \in 1..Len(tokens)}
        inv == [w \in DOMAIN removed.inverted_index \cup toks |->
                 IF w \in toks
                 THEN (IF w \in DOMAIN removed.inverted_index
                       THEN removed.inverted_index[w] ELSE {}) \cup {title}
                 ELSE removed.inverted_index[w]]
    IN Index(inv, dl, IF DOMAIN dl # {} THEN Mean(dl) ELSE removed.avg_doc_length)

CurrentIndex == Index(inverted_index, doc_lengths, avg_doc_length)

SetIndex(ix) ==
    /\ inverted_index' = ix.inverted_index
    /\ doc_lengths' = ix.doc_lengths
    /\ avg_doc_length' = ix.avg_doc_length

----------------------------------------------------------------------------
(* The outcomes of a call *)

Ok == "ok"
KeyErrorExists == "KeyError: already exists"
KeyErrorNotFound == "KeyError: not found"

Call(op, args, err, ret) == [op |-> op, args |-> args, err |-> err, ret |-> ret]

\* the writer is between two calls
Idle == Call("idle", <<>>, Ok, None)

Range(s) == {s[i] : i \in 1..Len(s)}

----------------------------------------------------------------------------
(* Pages *)

\* a WikiPage(...) built without the timestamps, which default to 0
WikiPage_default_times(title, content, tags, it) ==
    [title |-> title,
     content |-> content,
     tags |-> IF tags # None /\ tags[1] # {} THEN tags[1] ELSE {},
     links |-> {},
     created_at |-> 0,
     updated_at |-> 0]

\* a WikiPage(...) given its created_at only, updated_at at its default 0
WikiPage_created_only(title, content, tags, it) ==
    [title |-> title,
     content |-> content,
     tags |-> IF tags # None /\ tags[1] # {} THEN tags[1] ELSE {},
     links |-> {},
     created_at |-> it,
     updated_at |-> 0]

\* the WikiPage(...) built by Wiki.create
WikiPage(title, content, tags, it) ==
    [title |-> title,
     content |-> content,
     tags |-> IF tags # None /\ tags[1] # {} THEN tags[1] ELSE {},
     links |-> {},
     created_at |-> it,
     updated_at |-> it]

\* an update that appends to the body it has just replaced
UpdatedContent_then_append(old, content, append) ==
    IF content # None
    THEN (IF append # None THEN content[1] \o append[1] ELSE content[1])
    ELSE IF append # None THEN old \o append[1]
    ELSE old

\* the body Wiki.update leaves in the page
UpdatedContent(old, content, append) ==
    IF content # None THEN content[1]
    ELSE IF append # None THEN old \o append[1]
    ELSE old

\* an update that adds the given tags to the tags the page has
UpdatedTags_merged(old, tags) == IF tags # None THEN old \cup tags[1] ELSE old

\* the tag set Wiki.update leaves in the page
UpdatedTags(old, tags) == IF tags # None THEN tags[1] ELSE old

\* an update that stamps the page as if it were made anew
UpdatedPage_restamped(page, content, append, tags, it) ==
    [page EXCEPT !.content = UpdatedContent(page.content, content, append),
                 !.tags = UpdatedTags(page.tags, tags),
                 !.created_at = it,
                 !.updated_at = it]

\* an update that moves updated_at only when it is given a body or tags
UpdatedPage_if_changed(page, content, append, tags, it) ==
    [page EXCEPT !.content = UpdatedContent(page.content, content, append),
                 !.tags = UpdatedTags(page.tags, tags),
                 !.updated_at = IF content # None \/ append # None \/ tags # None
                                THEN it ELSE @]

\* the page as Wiki.update leaves it
UpdatedPage(page, content, append, tags, it) ==
    [page EXCEPT !.content = UpdatedContent(page.content, content, append),
                 !.tags = UpdatedTags(page.tags, tags),
                 !.updated_at = it]

\* a delete that leaves the links of the other pages alone
DiscardLinks_skipped(pgs, title) == pgs

\* other.links.discard(title)
DiscardLink(page, title) == [page EXCEPT !.links = @ \ {title}]

\* for other in self._pages.values(): other.links.discard(title)
DiscardLinks(pgs, title) ==
    [u \in DOMAIN pgs |-> DiscardLink(pgs[u], title)]

\* a link that records the edge in both pages
AddLink_symmetric(pgs, from_title, to_title) ==
    [u \in DOMAIN pgs |->
        IF u = from_title THEN [pgs[u] EXCEPT !.links = @ \cup {to_title}]
        ELSE IF u = to_title THEN [pgs[u] EXCEPT !.links = @ \cup {from_title}]
        ELSE pgs[u]]

\* a link that also moves updated_at of the source page
AddLink_touching(pgs, from_title, to_title) ==
    [pgs EXCEPT ![from_title].links = @ \cup {to_title},
                ![from_title].updated_at = iteration]

\* self._pages[from_title].links.add(to_title)
AddLink(pgs, from_title, to_title) ==
    [pgs EXCEPT ![from_title].links = @ \cup {to_title}]

\* Wiki._get_or_raise: does the lookup raise KeyError?
Missing(pgs, title) == title \notin DOMAIN pgs

\* a backlinks that passes over the page's link to itself
backlinks_of_others(pgs, title) ==
    sorted({t \in DOMAIN pgs \ {title} : title \in pgs[t].links})

\* Wiki.backlinks
backlinks(pgs, title) == sorted({t \in DOMAIN pgs : title \in pgs[t].links})

\* Wiki.export
export(pgs) ==
    [pages |-> [t \in DOMAIN pgs |->
                  [title |-> pgs[t].title,
                   content |-> pgs[t].content,
                   tags |-> sorted(pgs[t].tags),
                   links |-> sorted(pgs[t].links),
                   created_at |-> pgs[t].created_at,
                   updated_at |-> pgs[t].updated_at]],
     page_count |-> Cardinality(DOMAIN pgs)]

----------------------------------------------------------------------------
(* The calls of the single writer, each one a whole call *)

Create(title, content, tags) ==
    IF title \in DOMAIN pages
    THEN /\ last' = Call("create", <<title>>, KeyErrorExists, None)
         /\ UNCHANGED <<store, iteration>>
    ELSE /\ pages' = [u \in DOMAIN pages \cup {title} |->
                        IF u = title THEN WikiPage(title, content, tags, iteration)
                        ELSE pages[u]]
         /\ SetIndex(index_page(CurrentIndex, title, content))
         /\ last' = Call("create", <<title>>, Ok, None)
         /\ UNCHANGED iteration

Update(title, content, append, tags) ==
    IF Missing(pages, title)
    THEN /\ last' = Call("update", <<title, content # None, append # None, tags # None>>, KeyErrorNotFound, None)
         /\ UNCHANGED <<store, iteration>>
    ELSE /\ Len(UpdatedContent(pages[title].content, content, append)) <= MaxLen
         /\ pages' = [pages EXCEPT ![title] =
                        UpdatedPage(@, content, append, tags, iteration)]
         /\ SetIndex(index_page(CurrentIndex, title, pages'[title].content))
         /\ last' = Call("update", <<title, content # None, append # None, tags # None>>, Ok, None)
         /\ UNCHANGED iteration

Get(title) ==
    /\ last' = IF Missing(pages, title)
               THEN Call("get", <<title>>, KeyErrorNotFound, None)
               ELSE Call("get", <<title>>, Ok, pages[title])
    /\ UNCHANGED <<store, iteration>>

\* a delete that keeps the page's length record in the index
Delete_keeps_length(title) ==
    IF Missing(pages, title)
    THEN /\ last' = Call("delete", <<title>>, KeyErrorNotFound, None)
         /\ UNCHANGED <<store, iteration>>
    ELSE /\ pages' = [u \in DOMAIN pages \ {title} |-> DiscardLinks(pages, title)[u]]
         /\ inverted_index' = remove_from_index(CurrentIndex, title).inverted_index
         /\ UNCHANGED <<doc_lengths, avg_doc_length>>
         /\ last' = Call("delete", <<title>>, Ok, None)
         /\ UNCHANGED iteration

\* a delete that leaves the links the other pages have to the page
Delete_keeps_backlinks(title) ==
    IF Missing(pages, title)
    THEN /\ last' = Call("delete", <<title>>, KeyErrorNotFound, None)
         /\ UNCHANGED <<store, iteration>>
    ELSE /\ pages' = [u \in DOMAIN pages \ {title} |-> pages[u]]
         /\ SetIndex(remove_from_index(CurrentIndex, title))
         /\ last' = Call("delete", <<title>>, Ok, None)
         /\ UNCHANGED iteration

Delete(title) ==
    IF Missing(pages, title)
    THEN /\ last' = Call("delete", <<title>>, KeyErrorNotFound, None)
         /\ UNCHANGED <<store, iteration>>
    ELSE /\ pages' = [u \in DOMAIN pages \ {title} |-> DiscardLinks(pages, title)[u]]
         /\ SetIndex(remove_from_index(CurrentIndex, title))
         /\ last' = Call("delete", <<title>>, Ok, None)
         /\ UNCHANGED iteration

\* a link that looks up the source page only
Link_unchecked_target(from_title, to_title) ==
    IF Missing(pages, from_title)
    THEN /\ last' = Call("link", <<from_title, to_title>>, KeyErrorNotFound, None)
         /\ UNCHANGED <<store, iteration>>
    ELSE /\ pages' = AddLink(pages, from_title, to_title)
         /\ last' = Call("link", <<from_title, to_title>>, Ok, None)
         /\ UNCHANGED <<iteration, inverted_index, doc_lengths, avg_doc_length>>

Link(from_title, to_title) ==
    IF Missing(pages, from_title) \/ Missing(pages, to_title)
    THEN /\ last' = Call("link", <<from_title, to_title>>, KeyErrorNotFound, None)
         /\ UNCHANGED <<store, iteration>>
    ELSE /\ pages' = AddLink(pages, from_title, to_title)
         /\ last' = Call("link", <<from_title, to_title>>, Ok, None)
         /\ UNCHANGED <<iteration, inverted_index, doc_lengths, avg_doc_length>>

\* a backlinks that looks the title up first
Backlinks_checked(title) ==
    /\ last' = IF Missing(pages, title)
               THEN Call("backlinks", <<title>>, KeyErrorNotFound, None)
               ELSE Call("backlinks", <<title>>, Ok, backlinks(pages, title))
    /\ UNCHANGED <<store, iteration>>

Backlinks(title) ==
    /\ last' = Call("backlinks", <<title>>, Ok, backlinks(pages, title))
    /\ UNCHANGED <<store, iteration>>

Export ==
    /\ last' = Call("export", <<>>, Ok, export(pages))
    /\ UNCHANGED <<store, iteration>>

SetIteration(it) ==
    /\ iteration' = it
    /\ last' = Call("set_iteration", <<it>>, Ok, None)
    /\ UNCHANGED store

----------------------------------------------------------------------------
(* The store after Wiki.__init__, and its single-threaded use *)

NoPages == [t \in {} |-> {}]

\* no call in progress, no export() in progress
WriterIdle == [pc |-> "idle", args |-> <<>>, i |-> 0, calls |-> 0]
NoObject == [title |-> "", live |-> FALSE, obj |-> NoPages]
ViewerIdle ==
    [pc |-> "idle", used |-> 0, left |-> 0, pos |-> 0, held |-> NoObject,
     cur |-> NoPages, snap |-> NoPages,
     served |-> [pages |-> NoPages, page_count |-> 0]]

Init ==
    /\ slots = <<>>
    /\ writer = WriterIdle
    /\ viewer = ViewerIdle
    /\ instants = {NoPages}
    /\ pages = NoPages
    /\ iteration = 0
    /\ inverted_index = [w \in {} |-> {}]
    /\ doc_lengths = [t \in {} |-> 0]
    /\ avg_doc_length = [num |-> 0, den |-> 1]
    /\ last = Idle

\* the caller takes the outcome of its call and goes on
Return ==
    /\ last # Idle
    /\ last' = Idle
    /\ UNCHANGED <<store, iteration>>

\* the single writer makes one call at a time
MakeCall ==
    \/ \E t \in Titles, c \in TextIn, g \in Opt(TagSets) : Create(t, c, g)
    \/ \E t \in Titles, c \in Opt(TextIn), a \in Opt(AppendIn), g \in Opt(TagSets) :
          Update(t, c, a, g)
    \/ \E t \in Titles : Get(t)
    \/ \E t \in Titles : Delete(t)
    \/ \E f \in Titles, t \in Titles : Link(f, t)
    \/ \E t \in Titles : Backlinks(t)
    \/ Export
    \/ \E it \in Iterations : SetIteration(it)

Next ==
    \/ last = Idle /\ MakeCall /\ UNCHANGED threads
    \/ Return /\ UNCHANGED threads

Spec == Init /\ [][Next]_vars

----------------------------------------------------------------------------
(* The writer beside the viewer thread started by serve_wiki: the handler   *)
(* thread runs Wiki.export() while the writer is inside a call, so the      *)
(* statements of a call and the reads of export() are separate steps.       *)
(* A dict keeps the slot of a deleted key; with at most MaxCalls insertions *)
(* it is never resized.                                                     *)

\* the calls the writer makes while the viewer polls
MaxCalls == 3

Dummy == "<dummy>"

\* the first slot at or after slot i that holds a key, or 0
NextSlot(i) ==
    IF \E j \in i..Len(slots) : slots[j] # Dummy
    THEN CHOOSE j \in i..Len(slots) :
            slots[j] # Dummy /\ \A k \in i..(j - 1) : slots[k] = Dummy
    ELSE 0

SlotOf(title) == CHOOSE j \in 1..Len(slots) : slots[j] = title

CanCall == writer.pc = "idle" /\ writer.calls < MaxCalls

Begin(pc, args, i) == [pc |-> pc, args |-> args, i |-> i, calls |-> writer.calls + 1]

Goto(pc) == [writer EXCEPT !.pc = pc]

Finish == [writer EXCEPT !.pc = "idle", !.args = <<>>, !.i = 0]

Raise == [writer EXCEPT !.calls = @ + 1]

\* the call has returned and left the pages pgs
Completed(pgs) ==
    instants' = IF viewer.pc = "idle" THEN {pgs} ELSE instants \cup {pgs}

\* create: the lookup, the WikiPage and self._pages[title] = page
CreateInsert(title, content, tags) ==
    /\ CanCall
    /\ IF title \in DOMAIN pages
       THEN /\ writer' = Raise
            /\ Completed(pages)
            /\ UNCHANGED <<pages, slots>>
       ELSE /\ pages' = [u \in DOMAIN pages \cup {title} |->
                           IF u = title THEN WikiPage(title, content, tags, iteration)
                           ELSE pages[u]]
            /\ slots' = Append(slots, title)
            /\ writer' = Begin("create_index", <<title, content>>, 0)
            /\ UNCHANGED instants
    /\ UNCHANGED <<iteration, inverted_index, doc_lengths, avg_doc_length, last, viewer>>

\* create: self._index_page(title, content)
CreateIndex ==
    /\ writer.pc = "create_index"
    /\ SetIndex(index_page(CurrentIndex, writer.args[1], writer.args[2]))
    /\ writer' = Finish
    /\ Completed(pages)
    /\ UNCHANGED <<pages, slots, iteration, last, viewer>>

\* update: the lookup and the assignment of page.content
UpdateContent(title, content, append, tags) ==
    /\ CanCall
    /\ IF Missing(pages, title)
       THEN /\ writer' = Raise
            /\ Completed(pages)
            /\ UNCHANGED pages
       ELSE /\ Len(UpdatedContent(pages[title].content, content, append)) <= MaxLen
            /\ pages' = [pages EXCEPT ![title].content =
                            UpdatedContent(@, content, append)]
            /\ writer' = Begin("update_tags", <<title, tags>>, 0)
            /\ UNCHANGED instants
    /\ UNCHANGED <<slots, iteration, inverted_index, doc_lengths, avg_doc_length, last, viewer>>

\* update: the assignment of page.tags
UpdateTags ==
    /\ writer.pc = "update_tags"
    /\ pages' = [pages EXCEPT ![writer.args[1]].tags = UpdatedTags(@, writer.args[2])]
    /\ writer' = Goto("update_touch")
    /\ UNCHANGED <<slots, iteration, inverted_index, doc_lengths, avg_doc_length,
                   last, viewer, instants>>

\* update: page.updated_at = self._iteration
UpdateTouch ==
    /\ writer.pc = "update_touch"
    /\ pages' = [pages EXCEPT ![writer.args[1]].updated_at = iteration]
    /\ writer' = Goto("update_index")
    /\ UNCHANGED <<slots, iteration, inverted_index, doc_lengths, avg_doc_length,
                   last, viewer, instants>>

\* update: self._index_page(title, page.content)
UpdateIndex ==
    /\ writer.pc = "update_index"
    /\ SetIndex(index_page(CurrentIndex, writer.args[1], pages[writer.args[1]].content))
    /\ writer' = Finish
    /\ Completed(pages)
    /\ UNCHANGED <<pages, slots, iteration, last, viewer>>

\* delete: the lookup, and the start of the loop over self._pages.values()
DeleteLookup(title) ==
    /\ CanCall
    /\ IF Missing(pages, title)
       THEN writer' = Raise /\ Completed(pages)
       ELSE writer' = Begin("delete_discard", <<title>>, NextSlot(1)) /\ UNCHANGED instants
    /\ UNCHANGED <<pages, slots, iteration, inverted_index, doc_lengths, avg_doc_length,
                   last, viewer>>

\* delete: other.links.discard(title) for the next page of the loop
DeleteDiscard ==
    /\ writer.pc = "delete_discard"
    /\ pages' = [pages EXCEPT ![slots[writer.i]] = DiscardLink(@, writer.args[1])]
    /\ writer' = IF NextSlot(writer.i + 1) = 0
                 THEN [writer EXCEPT !.pc = "delete_index", !.i = 0]
                 ELSE [writer EXCEPT !.i = NextSlot(writer.i + 1)]
    /\ UNCHANGED <<slots, iteration, inverted_index, doc_lengths, avg_doc_length,
                   last, viewer, instants>>

\* delete: self._remove_from_index(title)
DeleteIndex ==
    /\ writer.pc = "delete_index"
    /\ SetIndex(remove_from_index(CurrentIndex, writer.args[1]))
    /\ writer' = Goto("delete_del")
    /\ UNCHANGED <<pages, slots, iteration, last, viewer, instants>>

\* delete: del self._pages[title]; a viewer that holds the page keeps the
\* object the dict has dropped
DeleteDel ==
    /\ writer.pc = "delete_del"
    /\ pages' = [u \in DOMAIN pages \ {writer.args[1]} |-> pages[u]]
    /\ slots' = [slots EXCEPT ![SlotOf(writer.args[1])] = Dummy]
    /\ viewer' = IF viewer.held.live /\ viewer.held.title = writer.args[1]
                 THEN [viewer EXCEPT !.held.live = FALSE,
                                     !.held.obj = pages[writer.args[1]]]
                 ELSE viewer
    /\ writer' = Finish
    /\ Completed(pages')
    /\ UNCHANGED <<iteration, inverted_index, doc_lengths, avg_doc_length, last>>

\* link: the two lookups and links.add(to_title)
LinkAdd(from_title, to_title) ==
    /\ CanCall
    /\ writer' = Raise
    /\ IF Missing(pages, from_title) \/ Missing(pages, to_title)
       THEN UNCHANGED pages
       ELSE pages' = AddLink(pages, from_title, to_title)
    /\ Completed(pages')
    /\ UNCHANGED <<slots, iteration, inverted_index, doc_lengths, avg_doc_length,
                   last, viewer>>

\* set_iteration
IterationSet(it) ==
    /\ CanCall
    /\ writer' = Raise
    /\ iteration' = it
    /\ Completed(pages)
    /\ UNCHANGED <<pages, slots, inverted_index, doc_lengths, avg_doc_length,
                   last, viewer>>

\* the page object the viewer reads
Held == IF viewer.held.live THEN pages[viewer.held.title] ELSE viewer.held.obj

NoEntry ==
    [title |-> "", content |-> <<>>, tags |-> <<>>, links |-> <<>>,
     created_at |-> 0, updated_at |-> 0]

ViewerFrame == <<pages, slots, iteration, inverted_index, doc_lengths, avg_doc_length,
                 last, writer, instants>>

\* export: do_GET calls rlm.wiki.export(), which starts to iterate over
\* self._pages.items()
ExportBegin ==
    /\ viewer.pc = "idle"
    /\ viewer' = [viewer EXCEPT !.pc = "next",
                                !.used = Cardinality(DOMAIN pages),
                                !.left = Cardinality(DOMAIN pages),
                                !.pos = 0,
                                !.cur = NoEntry]
    /\ UNCHANGED ViewerFrame

\* export: the next item of the dict iterator, which raises RuntimeError
\* when the dict has changed size, or holds a key it did not expect
ExportNext ==
    /\ viewer.pc = "next"
    /\ viewer' =
         IF Cardinality(DOMAIN pages) # viewer.used
         THEN [viewer EXCEPT !.pc = "error"]
         ELSE IF NextSlot(viewer.pos + 1) = 0
         THEN [viewer EXCEPT !.pc = "count"]
         ELSE IF viewer.left = 0
         THEN [viewer EXCEPT !.pc = "error"]
         ELSE [viewer EXCEPT !.pc = "content",
                             !.pos = NextSlot(viewer.pos + 1),
                             !.left = @ - 1,
                             !.held = [title |-> slots[NextSlot(viewer.pos + 1)],
                                       live |-> TRUE, obj |-> NoPages],
                             !.cur = NoEntry]
    /\ UNCHANGED ViewerFrame

\* export: "title": page.title, "content": page.content
ExportContent ==
    /\ viewer.pc = "content"
    /\ viewer' = [viewer EXCEPT !.pc = "tags",
                                !.cur.title = Held.title,
                                !.cur.content = Held.content]
    /\ UNCHANGED ViewerFrame

\* export: "tags": sorted(page.tags)
ExportTags ==
    /\ viewer.pc = "tags"
    /\ viewer' = [viewer EXCEPT !.pc = "links", !.cur.tags = sorted(Held.tags)]
    /\ UNCHANGED ViewerFrame

\* export: "links": sorted(page.links), "created_at": page.created_at
ExportLinks ==
    /\ viewer.pc = "links"
    /\ viewer' = [viewer EXCEPT !.pc = "updated_at",
                                !.cur.links = sorted(Held.links),
                                !.cur.created_at = Held.created_at]
    /\ UNCHANGED ViewerFrame

\* export: "updated_at": page.updated_at, and the entry goes under its title
ExportUpdatedAt ==
    /\ viewer.pc = "updated_at"
    /\ LET entry == [viewer.cur EXCEPT !.updated_at = Held.updated_at]
           key == viewer.held.title
       IN viewer' = [viewer EXCEPT
                       !.pc = "next",
                       !.held = NoObject,
                       !.cur = NoEntry,
                       !.snap = [t \in DOMAIN viewer.snap \cup {key} |->
                                   IF t = key THEN entry ELSE viewer.snap[t]]]
    /\ UNCHANGED ViewerFrame

\* export: "page_count": len(self._pages), and the snapshot is served
ExportCount ==
    /\ viewer.pc = "count"
    /\ viewer' = [viewer EXCEPT
                    !.pc = "done",
                    !.served = [pages |-> viewer.snap,
                                page_count |-> Cardinality(DOMAIN pages)]]
    /\ UNCHANGED ViewerFrame

WriterStep ==
    \/ \E t \in Titles, g \in Opt({{"finding"}}) : CreateInsert(t, <<"a">>, g)
    \/ CreateIndex
    \/ \E t \in Titles, c \in Opt({<<"B", "!", "a">>}), g \in Opt({{}}) :
          UpdateContent(t, c, None, g)
    \/ UpdateTags
    \/ UpdateTouch
    \/ UpdateIndex
    \/ \E t \in Titles : DeleteLookup(t)
    \/ DeleteDiscard
    \/ DeleteIndex
    \/ DeleteDel
    \/ \E f \in Titles, t \in Titles : LinkAdd(f, t)
    \/ \E it \in Iterations : IterationSet(it)

ViewerStep ==
    \/ ExportBegin
    \/ ExportNext
    \/ ExportContent
    \/ ExportTags
    \/ ExportLinks
    \/ ExportUpdatedAt
    \/ ExportCount

NextPolled == WriterStep \/ ViewerStep

\* the writer's calls with one export() of the viewer thread in between
SpecPolled == Init /\ [][NextPolled]_vars

----------------------------------------------------------------------------
(* The arithmetic of Wiki.search.  Python computes a score in binary       *)
(* floating point; here a score is a whole number of millionths, and the   *)
(* logarithm is computed to within a hundred-thousandth.  k1, b and the    *)
(* average document length are fractions num/den.                          *)

\* the millionths in one
Micro == 1000000

\* math.log(2), in millionths
Ln2 == 693147

\* k1, b = 1.5, 0.75
k1 == [num |-> 3, den |-> 2]
b == [num |-> 3, den |-> 4]

\* floor(a * x / y) for y > 0, by parts that stay within 32 bits
MulDiv(a, x, y) == (a \div y) * x + ((a % y) * x) \div y

\* the product of two numbers of millionths, in millionths
MulMicro(x, y) == ((x \div 1000) * y) \div 1000 + ((x % 1000) * y) \div Micro

\* z + z^3/3 + z^5/5 + ..., from the term z^k/k on, for 0 <= z <= 1/3
RECURSIVE AtanhSeries(_, _, _)
AtanhSeries(power, square, k) ==
    IF power = 0 THEN 0
    ELSE power \div k + AtanhSeries(MulMicro(power, square), square, k + 2)

\* math.log(p / q) for p >= q > 0: log(2) for every halving that leaves the
\* quotient at 1 or more, then 2 * atanh((p - q) / (p + q))
RECURSIVE LogAtLeastOne(_, _)
LogAtLeastOne(p, q) ==
    IF p >= 2 * q THEN Ln2 + LogAtLeastOne(p, 2 * q)
    ELSE LET z == ((p - q) * Micro) \div (p + q)
         IN 2 * AtanhSeries(z, MulMicro(z, z), 1)

\* math.log(p / q) for p, q > 0, in millionths
log(p, q) == IF p >= q THEN LogAtLeastOne(p, q) ELSE -LogAtLeastOne(q, p)

\* an idf without the 1.0 added to the quotient
idf_without_one(n, df) == log(2 * (n - df) + 1, 2 * df + 1)

\* idf = math.log((n - len(doc_set) + 0.5) / (len(doc_set) + 0.5) + 1.0),
\* the quotient with numerator and denominator doubled
idf(n, df) == log(2 * (n - df) + 1 + (2 * df + 1), 2 * df + 1)

\* avg_dl = self._avg_doc_length or 1.0
avg_dl_or_one(avg) == IF avg.num = 0 THEN [num |-> 1, den |-> 1] ELSE avg

\* a numerator that leaves out the term frequency
numerator_without_tf(tf) == [num |-> k1.num + k1.den, den |-> k1.den]

\* numerator = tf * (k1 + 1)
numerator(tf) == [num |-> tf * (k1.num + k1.den), den |-> k1.den]

\* denominator = tf + k1 * (1 - b + b * dl / avg_dl)
denominator(tf, dl, avg_dl) ==
    [num |-> tf * k1.den * b.den * avg_dl.num
             + k1.num * ((b.den - b.num) * avg_dl.num + b.num * dl * avg_dl.den),
     den |-> k1.den * b.den * avg_dl.num]

\* idf * numerator / denominator, in millionths
contribution(idf_value, tf, dl, avg_dl) ==
    LET n == numerator(tf)
        d == denominator(tf, dl, avg_dl)
    IN MulDiv(idf_value, n.num * d.den, n.den * d.num)

\* round(score, 3), in thousandths
round(score) == (score + 500) \div 1000

----------------------------------------------------------------------------
(* Wiki.search *)

\* Counter(tokens)[term]
Count(tokens, term) == Cardinality({i \in 1..Len(tokens) : tokens[i] = term})

\* what one pass of the loop over the query terms adds to the score of one
\* title of the term's posting set
TermScore(pgs, ix, term, title) ==
    LET doc_set == ix.inverted_index[term]
        tf == Count(tokenize(pgs[title].content), term)
        dl == IF title \in DOMAIN ix.doc_lengths THEN ix.doc_lengths[title] ELSE 1
    IN contribution(idf(Cardinality(DOMAIN pgs), Cardinality(doc_set)),
                    tf, dl, avg_dl_or_one(ix.avg_doc_length))

\* the terms of the query that the index holds for the title
TermsFor(ix, tokens, title) ==
    {w \in Range(tokens) \cap DOMAIN ix.inverted_index : title \in ix.inverted_index[w]}

\* scores in which a term counts once, however often the query repeats it
scores_of_distinct_terms(pgs, ix, tokens) ==
    LET terms == Range(tokens) \cap DOMAIN ix.inverted_index
    IN [t \in UNION {ix.inverted_index[w] : w \in terms} |->
          SumOver([w \in TermsFor(ix, tokens, t) |-> TermScore(pgs, ix, w, t)],
                  TermsFor(ix, tokens, t))]

\* the loop "for term in tokens" from the i-th token on, sc the scores so far
RECURSIVE ScoresFrom(_, _, _, _, _)
ScoresFrom(pgs, ix, tokens, i, sc) ==
    IF i > Len(tokens) THEN sc
    ELSE IF tokens[i] \notin DOMAIN ix.inverted_index
         THEN ScoresFrom(pgs, ix, tokens, i + 1, sc)
         ELSE LET doc_set == ix.inverted_index[tokens[i]]
                  added == [t \in DOMAIN sc \cup doc_set |->
                              (IF t \in DOMAIN sc THEN sc[t] ELSE 0)
                              + (IF t \in doc_set
                                 THEN TermScore(pgs, ix, tokens[i], t) ELSE 0)]
              IN ScoresFrom(pgs, ix, tokens, i + 1, added)

\* scores after the loop over the query terms
scores(pgs, ix, tokens) == ScoresFrom(pgs, ix, tokens, 1, [t \in {} |-> 0])

\* the pass of the loop that puts the title into scores
FirstPass(ix, tokens, title) ==
    CHOOSE i \in 1..Len(tokens) :
        /\ tokens[i] \in TermsFor(ix, tokens, title)
        /\ \A j \in 1..(i - 1) : tokens[j] \notin TermsFor(ix, tokens, title)

\* the lists that hold every element of S once
Perms(S) == {s \in [1..Cardinality(S) -> S] : Range(s) = S}

\* a sort of scores.items() by ascending score
ranked_ascending(sc, ix, tokens) ==
    {r \in Perms(DOMAIN sc) :
        \A i, j \in 1..Len(r) : i < j =>
            \/ sc[r[i]] < sc[r[j]]
            \/ sc[r[i]] = sc[r[j]] /\ FirstPass(ix, tokens, r[i]) <= FirstPass(ix, tokens, r[j])}

\* sorted(scores.items(), key=lambda x: x[1], reverse=True): the titles by
\* descending score.  The sort is stable: titles of equal score stay in the
\* order of scores.items(), the order in which the loop met them; the titles
\* one pass brings in come in the iteration order of a set of strings, which
\* is any order.
ranked(sc, ix, tokens) ==
    {r \in Perms(DOMAIN sc) :
        \A i, j \in 1..Len(r) : i < j =>
            \/ sc[r[i]] > sc[r[j]]
            \/ sc[r[i]] = sc[r[j]] /\ FirstPass(ix, tokens, r[i]) <= FirstPass(ix, tokens, r[j])}

\* s[:top_k]
Take(s, top_k) ==
    IF top_k >= 0
    THEN SubSeq(s, 1, IF top_k < Len(s) THEN top_k ELSE Len(s))
    ELSE SubSeq(s, 1, Len(s) + top_k)

\* max_len of Wiki._make_snippet
max_len == 120

Least(S) == CHOOSE x \in S : \A y \in S : x <= y

\* text.find(token): the first place of token in text, counted from 0, or -1
Find(text, token) ==
    LET hits == {i \in 0..(Len(text) - Len(token)) :
                    SubSeq(text, i + 1, i + Len(token)) = token}
    IN IF hits = {} THEN -1 ELSE Least(hits)

\* text[start:end]
Slice(text, start, end) == SubSeq(text, start + 1, IF end < Len(text) THEN end ELSE Len(text))

\* text.replace("\n", " ")
Spaced(text) == [i \in 1..Len(text) |-> IF text[i] = "\n" THEN " " ELSE text[i]]

Dots == <<".", ".", ".">>

\* Wiki._make_snippet
make_snippet(content, query_tokens) ==
    LET lowered == [i \in 1..Len(content) |-> lower(content[i])]
        found == {Find(lowered, query_tokens[i]) : i \in 1..Len(query_tokens)} \ {-1}
        best_pos == Least(found \cup {Len(content)})
        start == IF best_pos - 30 > 0 THEN best_pos - 30 ELSE 0
        end == start + max_len
    IN IF best_pos = Len(content)
       THEN Spaced(Slice(content, 0, max_len))
            \o (IF Len(content) > max_len THEN Dots ELSE <<>>)
       ELSE (IF start > 0 THEN Dots ELSE <<>>)
            \o Spaced(Slice(content, start, end))
            \o (IF end < Len(content) THEN Dots ELSE <<>>)

\* results: one (title, round(score, 3), snippet) for each ranked title
results(pgs, sc, titles, tokens) ==
    [i \in 1..Len(titles) |->
        [title |-> titles[i],
         score |-> round(sc[titles[i]]),
         snippet |-> make_snippet(pgs[titles[i]].content, tokens)]]

\* a search that looks every query term up in the defaultdict, which makes
\* an entry for a term it does not hold
Search_indexing_query(query, top_k) ==
    /\ last' = Call("search", <<query, top_k>>, Ok, <<>>)
    /\ inverted_index' =
          [w \in DOMAIN inverted_index \cup Range(tokenize(query)) |->
              IF w \in DOMAIN inverted_index THEN inverted_index[w] ELSE {}]
    /\ UNCHANGED <<pages, doc_lengths, avg_doc_length, iteration>>

\* a search that refuses a query without a token
Search_rejecting(query, top_k) ==
    /\ last' = IF tokenize(query) = <<>>
               THEN Call("search", <<query, top_k>>, "ValueError", None)
               ELSE Call("search", <<query, top_k>>, Ok, <<>>)
    /\ UNCHANGED <<store, iteration>>

Search(query, top_k) ==
    /\ IF tokenize(query) = <<>> \/ DOMAIN pages = {}
       THEN last' = Call("search", <<query, top_k>>, Ok, <<>>)
       ELSE LET tokens == tokenize(query)
                sc == scores(pages, CurrentIndex, tokens)
            IN \E r \in ranked(sc, CurrentIndex, tokens) :
                  last' = Call("search", <<query, top_k>>, Ok,
                               results(pages, sc, Take(r, top_k), tokens))
    /\ UNCHANGED <<store, iteration>>

----------------------------------------------------------------------------
(* The store under create, update, delete and search *)

SearchTexts == {<<"a">>, <<"a", " ", "a">>, <<"B", "!", "a">>, <<"b">>}
Queries == {<<"a">>, <<"a", " ", "a">>, <<"A", " ", "b">>, <<"!">>}
TopKs == {-1, 0, 1, 2}

SearchCall ==
    \/ \E t \in Titles, c \in SearchTexts : Create(t, c, None)
    \/ \E t \in Titles, c \in SearchTexts : Update(t, Some(c), None, None)
    \/ \E t \in Titles : Delete(t)
    \/ \E q \in Queries, k \in TopKs : Search(q, k)

NextSearch ==
    \/ last = Idle /\ SearchCall /\ UNCHANGED threads
    \/ Return /\ UNCHANGED threads

SpecSearch == Init /\ [][NextSearch]_vars

----------------------------------------------------------------------------
(* The listings, and the store under all its calls *)

\* Wiki.titles
titles(pgs) == sorted(DOMAIN pgs)

\* a search_tags that returns the pages that have any tag
search_tags_of_any(pgs, tag) == sorted({t \in DOMAIN pgs : pgs[t].tags # {}})

\* Wiki.search_tags
search_tags(pgs, tag) == sorted({t \in DOMAIN pgs : tag \in pgs[t].tags})

\* Wiki.toc: the lines of the table, a line as the list of its parts; the
\* title is padded to 40 columns, the tags are joined by ", "
toc(pgs) ==
    IF DOMAIN pgs = {} THEN << <<"(wiki is empty)">> >>
    ELSE << <<"Wiki: ", Cardinality(DOMAIN pgs), " pages">> >>
         \o [i \in 1..Len(sorted(DOMAIN pgs)) |->
               LET page == pgs[sorted(DOMAIN pgs)[i]]
               IN <<"  ", page.title, " [",
                    IF page.tags # {} THEN sorted(page.tags) ELSE <<"-">>,
                    "]  (iter ", page.updated_at, ")">>]

ListTitles ==
    /\ last' = Call("titles", <<>>, Ok, titles(pages))
    /\ UNCHANGED <<store, iteration>>

Toc ==
    /\ last' = Call("toc", <<>>, Ok, toc(pages))
    /\ UNCHANGED <<store, iteration>>

SearchTags(tag) ==
    /\ last' = Call("search_tags", <<tag>>, Ok, search_tags(pages, tag))
    /\ UNCHANGED <<store, iteration>>

\* top_k: int = 5
top_k_default == 5

\* the tags asked for: one that pages carry and one that no page carries
TagsIn == {"finding", "p1"}

ReadCall ==
    \/ \E t \in Titles : Get(t)
    \/ ListTitles
    \/ Toc
    \/ \E t \in Titles : Backlinks(t)
    \/ \E q \in Queries : Search(q, top_k_default)
    \/ \E tag \in TagsIn : SearchTags(tag)
    \/ Export

WriteCall ==
    \/ \E t \in Titles, c \in TextIn, g \in Opt(TagSets) : Create(t, c, g)
    \/ \E t \in Titles, c \in Opt(TextIn), g \in Opt(TagSets) : Update(t, c, None, g)
    \/ \E t \in Titles : Delete(t)
    \/ \E f \in Titles, t \in Titles : Link(f, t)
    \/ \E it \in Iterations : SetIteration(it)

NextReads ==
    \/ last = Idle /\ ReadCall /\ UNCHANGED threads
    \/ last = Idle /\ WriteCall /\ UNCHANGED threads
    \/ Return /\ UNCHANGED threads

SpecReads == Init /\ [][NextReads]_vars

\* the store under a caller that never passes set_iteration a value below
\* the counter
MonotoneCall ==
    \/ \E t \in Titles, c \in TextIn, g \in Opt(TagSets) : Create(t, c, g)
    \/ \E t \in Titles, c \in Opt(TextIn), a \in Opt(AppendIn), g \in Opt(TagSets) :
          Update(t, c, a, g)
    \/ \E t \in Titles : Get(t)
    \/ \E t \in Titles : Delete(t)
    \/ \E f \in Titles, t \in Titles : Link(f, t)
    \/ \E t \in Titles : Backlinks(t)
    \/ Export
    \/ \E it \in Iterations : it >= iteration /\ SetIteration(it)

NextMonotone ==
    \/ last = Idle /\ MonotoneCall /\ UNCHANGED threads
    \/ Return /\ UNCHANGED threads

SpecMonotone == Init /\ [][NextMonotone]_vars

\* the life of a page: made, linked, deleted and made again, the store as
\* the latest successful delete found it being kept in instants
LifecycleCall ==
    \/ \E t \in Titles, c \in TextIn : Create(t, c, None) /\ UNCHANGED instants
    \/ \E t \in Titles :
          /\ Delete(t)
          /\ instants' = IF Missing(pages, t) THEN instants ELSE {pages}
    \/ \E f \in Titles, t \in Titles : Link(f, t) /\ UNCHANGED instants
    \/ \E it \in Iterations : SetIteration(it) /\ UNCHANGED instants

NextLifecycle ==
    \/ last = Idle /\ LifecycleCall /\ UNCHANGED <<slots, writer, viewer>>
    \/ Return /\ UNCHANGED threads

SpecLifecycle == Init /\ [][NextLifecycle]_vars

----------------------------------------------------------------------------
(* The score search gives one page for one query term, over the stores that *)
(* differ in the numbers the score is computed from: n pages, df of them    *)
(* with the term, the page with tf occurrences of the term among its dl     *)
(* tokens, the other pages with rest tokens between them.                   *)

\* the most pages and the most tokens of a page in the small stores
MaxPages == 3
MaxTokens == 3

\* the pages of a large store in which every page is a copy of one page
ManyPages == 1200

ScoreInStore(n, df, tf, dl, rest) ==
    LET avg == [num |-> dl + rest, den |-> n]
        raw == contribution(idf(n, df), tf, dl, avg_dl_or_one(avg))
    IN /\ last' = Call("score", <<n, df, tf, dl, rest>>, Ok,
                       [raw |-> raw, reported |-> round(raw)])
       /\ UNCHANGED <<store, iteration>>

NextScore ==
    \/ /\ \E n \in 1..MaxPages, df \in 1..MaxPages, tf \in 1..MaxTokens,
             dl \in 1..MaxTokens, rest \in 0..(MaxPages * MaxTokens) :
             /\ df <= n /\ tf <= dl
             /\ df - 1 <= rest /\ rest <= (n - 1) * MaxTokens
             /\ ScoreInStore(n, df, tf, dl, rest)
       /\ UNCHANGED threads
    \/ /\ \E tf \in 1..MaxTokens, dl \in 1..MaxTokens :
             /\ tf <= dl
             /\ ScoreInStore(ManyPages, ManyPages, tf, dl, (ManyPages - 1) * dl)
       /\ UNCHANGED threads

SpecScore == Init /\ [][NextScore]_vars

----------------------------------------------------------------------------
(* What the claims speak of *)

\* the call the step makes
Calls(op) == last'.op = op

\* the inverted index built from scratch from the live pages
RebuiltIndex(pgs) ==
    LET words == UNION {TokenSet(pgs[t].content) : t \in DOMAIN pgs}
    IN [w \in words |-> {t \in DOMAIN pgs : w \in TokenSet(pgs[t].content)}]

LexPos(x) == CHOOSE i \in 1..Len(Lex) : Lex[i] = x

Ascending(s) == \A i, j \in 1..Len(s) : i < j => LexPos(s[i]) < LexPos(s[j])

\* the pages rebuilt from a snapshot of export()
FromSnapshot(snap) ==
    [t \in DOMAIN snap.pages |->
        [title |-> snap.pages[t].title,
         content |-> snap.pages[t].content,
         tags |-> Range(snap.pages[t].tags),
         links |-> Range(snap.pages[t].links),
         created_at |-> snap.pages[t].created_at,
         updated_at |-> snap.pages[t].updated_at]]

----------------------------------------------------------------------------
\* C1: in every reachable state every title in the links set of a live page
\* is the title of a page present in the store.
C1_ReferentialIntegrity ==
    \A t \in DOMAIN pages : pages[t].links \subseteq DOMAIN pages

\* a delete has succeeded and left a page that still holds a link
C1_Witness ==
    /\ last.op = "delete" /\ last.err = Ok
    /\ \E t \in DOMAIN pages : pages[t].links # {}

\* C2: the inverted index equals the index rebuilt from the live pages: t is
\* in the posting set of w iff t is live and w is a token of t's content; no
\* token is kept with an empty posting set.
C2_IndexCoherence ==
    /\ inverted_index = RebuiltIndex(pages)
    /\ \A w \in DOMAIN inverted_index :
          /\ inverted_index[w] # {}
          /\ inverted_index[w] \subseteq DOMAIN pages

\* an update has replaced a two-token body by a one-token body while the
\* other page still holds both tokens
C2_Witness ==
    /\ last.op = "update" /\ last.err = Ok /\ last.args[2]
    /\ DOMAIN pages = Titles
    /\ tokenize(pages[last.args[1]].content) = << <<"a">> >>
    /\ \E u \in DOMAIN pages : Len(tokenize(pages[u].content)) = 2

\* C3: create(t, c, tags) on a store without t succeeds and leaves page t
\* with content c, the given tags, no links and both timestamps at the
\* current iteration; on a store with t it fails with the duplicate-title
\* error and changes nothing of the store.
C3_Create ==
    [][\A t \in Titles, c \in TextIn, g \in Opt(TagSets) :
          (last = Idle /\ Create(t, c, g)) =>
             IF t \in DOMAIN pages
             THEN last'.err = KeyErrorExists /\ UNCHANGED <<store, iteration>>
             ELSE /\ last'.err = Ok
                  /\ DOMAIN pages' = DOMAIN pages \cup {t}
                  /\ pages'[t].content = c
                  /\ pages'[t].tags = (IF g = None THEN {} ELSE g[1])
                  /\ pages'[t].links = {}
                  /\ pages'[t].created_at = iteration
                  /\ pages'[t].updated_at = iteration
                  /\ iteration' = iteration]_vars

\* a create of a title that is present, tagged and linked has failed
C3_Witness ==
    /\ last.op = "create" /\ last.err = KeyErrorExists
    /\ pages[last.args[1]].tags # {}
    /\ pages[last.args[1]].links # {}
    /\ iteration # pages[last.args[1]].created_at

\* the titles a call names
TitlesOf(call) ==
    IF call.op = "link" THEN {call.args[1], call.args[2]}
    ELSE IF call.op \in {"get", "update", "delete"} THEN {call.args[1]}
    ELSE {}

\* C4: get, update, delete and link naming a title that is not present fail
\* with the not-found error and leave the whole store unchanged.
C4_NotFound ==
    [][(TitlesOf(last') \ DOMAIN pages # {}) =>
          /\ last'.err = KeyErrorNotFound
          /\ UNCHANGED <<store, iteration>>]_vars

\* link(x, t) with x present and t absent has failed
C4_Witness ==
    /\ last.op = "link" /\ last.err = KeyErrorNotFound
    /\ last.args[1] \in DOMAIN pages
    /\ last.args[2] \notin DOMAIN pages

C6_Delete ==
    [][\A t \in Titles :
          (last = Idle /\ Delete(t)) =>
             IF t \in DOMAIN pages
             THEN /\ last'.err = Ok
                  /\ DOMAIN pages' = DOMAIN pages \ {t}
                  /\ \A u \in DOMAIN pages' :
                        pages'[u] = [pages[u] EXCEPT !.links = pages[u].links \ {t}]
                  /\ DOMAIN doc_lengths' = DOMAIN doc_lengths \ {t}
                  /\ \A u \in DOMAIN doc_lengths' : doc_lengths'[u] = doc_lengths[u]
                  /\ \A w \in DOMAIN inverted_index' :
                        inverted_index'[w] = inverted_index[w] \ {t}
                  /\ \A w \in DOMAIN inverted_index :
                        inverted_index[w] \ {t} # {} => w \in DOMAIN inverted_index'
             ELSE last'.err = KeyErrorNotFound /\ UNCHANGED <<store, iteration>>]_vars

\* a delete has succeeded, the store does not hold the title any more and a
\* page with text remains
C6_Witness ==
    /\ last.op = "delete" /\ last.err = Ok
    /\ last.args[1] \notin DOMAIN pages
    /\ DOMAIN pages # {}
    /\ DOMAIN inverted_index # {}

\* C7: export() called between two calls of the writer returns the store
\* state: one entry per live page under its title, tags and links as
\* ascending lists, page_count the number of live pages; the pages rebuilt
\* from the snapshot are the pages of the store.
C7_ExportRoundTrip ==
    last.op = "export" =>
       /\ FromSnapshot(last.ret) = pages
       /\ last.ret.page_count = Cardinality(DOMAIN pages)
       /\ \A t \in DOMAIN last.ret.pages :
             /\ last.ret.pages[t].title = t
             /\ Ascending(last.ret.pages[t].tags)
             /\ Ascending(last.ret.pages[t].links)
             /\ Len(last.ret.pages[t].tags) = Cardinality(pages[t].tags)
             /\ Len(last.ret.pages[t].links) = Cardinality(pages[t].links)

\* an export of a store with a tagged page that holds two links
C7_Witness ==
    /\ last.op = "export"
    /\ last.ret.page_count = 2
    /\ \E t \in DOMAIN last.ret.pages :
          Len(last.ret.pages[t].links) = 2 /\ Len(last.ret.pages[t].tags) = 1

\* C8: every snapshot export() returns to the viewer thread is the store
\* state of one instant between two complete calls of the writer, also when
\* export() runs while the writer is inside a call.  The call that was in
\* progress when export() returned has returned too, so that the instant
\* after it counts.
C8_SnapshotOfOneInstant ==
    (viewer.pc = "done" /\ writer.pc = "idle") =>
        viewer.served \in {export(pgs) : pgs \in instants}

\* C9: every successful update(t, ...) leaves page t's updated_at at the
\* current iteration, whichever of content, append and tags are given.
C9_UpdateTouches ==
    (last.op = "update" /\ last.err = Ok) =>
        pages[last.args[1]].updated_at = iteration

\* an update with none of content, append and tags has moved updated_at
C9_Witness ==
    /\ last.op = "update" /\ last.err = Ok
    /\ ~last.args[2] /\ ~last.args[3] /\ ~last.args[4]
    /\ pages[last.args[1]].updated_at # pages[last.args[1]].created_at

\* C10 as claimed: a call that changes the content, tags or links of a page
\* leaves that page's updated_at at the current iteration.
C10_EveryMutationTouches ==
    [][\A u \in DOMAIN pages \cap DOMAIN pages' :
          (\/ pages'[u].content # pages[u].content
           \/ pages'[u].tags # pages[u].tags
           \/ pages'[u].links # pages[u].links) =>
             pages'[u].updated_at = iteration]_vars

\* C10 as amended: a call that changes the content or tags of a page leaves
\* that page's updated_at at the current iteration; link and delete leave the
\* updated_at of every remaining page as it was, also of the page whose
\* links set they change.
C10_OnlyUpdateTouches ==
    [][\A u \in DOMAIN pages \cap DOMAIN pages' :
          /\ (\/ pages'[u].content # pages[u].content
              \/ pages'[u].tags # pages[u].tags) =>
                pages'[u].updated_at = iteration
          /\ (Calls("link") \/ Calls("delete")) =>
                pages'[u].updated_at = pages[u].updated_at]_vars

\* a link has added an edge to a page whose updated_at is not the current
\* iteration
C10_Witness ==
    /\ last.op = "link" /\ last.err = Ok
    /\ last.args[2] \in pages[last.args[1]].links
    /\ pages[last.args[1]].updated_at # iteration

\* C11: a page's created_at is the iteration at which create made it, and
\* no call changes it while the page stays in the store: not update, link,
\* delete of another page, set_iteration or a read.
C11_CreatedAtFixed ==
    [][/\ \A u \in DOMAIN pages' \ DOMAIN pages : pages'[u].created_at = iteration
       /\ \A u \in DOMAIN pages \cap DOMAIN pages' :
             pages'[u].created_at = pages[u].created_at]_vars

\* an update at a later iteration has moved updated_at and left created_at
C11_Witness ==
    /\ last.op = "update" /\ last.err = Ok
    /\ pages[last.args[1]].updated_at = iteration
    /\ pages[last.args[1]].created_at # iteration

\* C12: backlinks(t) of a present title t returns the titles of the live
\* pages whose links hold t, each once, in ascending order; after a
\* successful link(a, b), a is among the backlinks of b.
C12_Backlinks ==
    /\ (last.op = "backlinks" /\ last.args[1] \in DOMAIN pages) =>
          /\ Range(last.ret) = {u \in DOMAIN pages : last.args[1] \in pages[u].links}
          /\ Len(last.ret) = Cardinality(Range(last.ret))
          /\ Ascending(last.ret)
    /\ (last.op = "link" /\ last.err = Ok) =>
          last.args[1] \in Range(backlinks(pages, last.args[2]))

\* backlinks of a page that both pages link to, itself among them
C12_Witness ==
    /\ last.op = "backlinks"
    /\ last.args[1] \in DOMAIN pages
    /\ Len(last.ret) = 2

\* C13: link(a, b) with both pages present succeeds, adds b to the links of
\* a and changes nothing else of the store; when b is in the links of a
\* already, as after a first link(a, b), it succeeds and leaves the store as
\* it is.
C13_Link ==
    [][\A f \in Titles, t \in Titles :
          (/\ Calls("link") /\ last'.args = <<f, t>>
           /\ f \in DOMAIN pages /\ t \in DOMAIN pages) =>
             /\ last'.err = Ok
             /\ DOMAIN pages' = DOMAIN pages
             /\ pages'[f] = [pages[f] EXCEPT !.links = pages[f].links \cup {t}]
             /\ \A u \in DOMAIN pages \ {f} : pages'[u] = pages[u]
             /\ UNCHANGED <<inverted_index, doc_lengths, avg_doc_length, iteration>>
             /\ t \in pages[f].links => UNCHANGED store
             /\ AddLink(pages', f, t) = pages']_vars

\* a link from a tagged page to the other page has succeeded, and the other
\* page holds no link back
C13_Witness ==
    /\ last.op = "link" /\ last.err = Ok
    /\ last.args[1] # last.args[2]
    /\ pages[last.args[1]].links = {last.args[2]}
    /\ pages[last.args[1]].tags # {}
    /\ pages[last.args[2]].links = {}

\* C20: a successful update(t, tags=S) leaves page t with the tag set S,
\* whatever tags it had, also for the empty S; a successful update without
\* tags leaves the tags of t as they were; neither changes the links of t or
\* any other page.
C20_UpdateTags ==
    [][\A t \in Titles, c \in Opt(TextIn), a \in Opt(AppendIn), g \in Opt(TagSets) :
          (/\ Calls("update") /\ last'.err = Ok
           /\ last'.args = <<t, c # None, a # None, g # None>>
           /\ Update(t, c, a, g)) =>
             /\ DOMAIN pages' = DOMAIN pages
             /\ pages'[t].tags = (IF g = None THEN pages[t].tags ELSE g[1])
             /\ pages'[t].links = pages[t].links
             /\ \A u \in DOMAIN pages \ {t} : pages'[u] = pages[u]]_vars

\* an update that was given tags has left a linked page without tags beside
\* a page that has a tag
C20_Witness ==
    /\ last.op = "update" /\ last.err = Ok /\ last.args[4]
    /\ pages[last.args[1]].tags = {}
    /\ pages[last.args[1]].links # {}
    /\ \E u \in DOMAIN pages : pages[u].tags # {}

\* the titles of the results of a search, as a set
ResultTitles(ret) == {ret[i].title : i \in 1..Len(ret)}

\* the live pages whose content holds a token of the query
Matching(pgs, query) ==
    {t \in DOMAIN pgs : TokenSet(pgs[t].content) \cap TokenSet(query) # {}}

\* C14: search returns the empty list, and does not fail, when the store
\* holds no page or the query holds no token, in every reachable state.
C14_SearchOfNothing ==
    (last.op = "search" /\ (DOMAIN pages = {} \/ tokenize(last.args[1]) = <<>>)) =>
        last.err = Ok /\ last.ret = <<>>

\* a query of punctuation only has been searched in a store with indexed text
C14_Witness ==
    /\ last.op = "search" /\ last.err = Ok
    /\ last.args[1] # <<>> /\ tokenize(last.args[1]) = <<>>
    /\ DOMAIN inverted_index # {}

\* C15: every title search returns is a live page whose current content
\* holds a token of the query, no title is returned twice, and when the
\* pages that match are no more than top_k all of them are returned.
C15_SearchResults ==
    last.op = "search" =>
        /\ last.err = Ok
        /\ ResultTitles(last.ret) \subseteq Matching(pages, last.args[1])
        /\ Len(last.ret) = Cardinality(ResultTitles(last.ret))
        /\ Cardinality(Matching(pages, last.args[1])) <= last.args[2] =>
              ResultTitles(last.ret) = Matching(pages, last.args[1])

\* a search in a store of two pages has returned the one page that holds the
\* query's token
C15_Witness ==
    /\ last.op = "search" /\ last.args[2] = 2
    /\ Cardinality(DOMAIN pages) = 2
    /\ Len(last.ret) = 1
    /\ Matching(pages, last.args[1]) = {last.ret[1].title}

\* C16 as claimed: the score of a returned page is the sum of the BM25 terms
\* of the distinct query tokens the index holds for it, each counted once,
\* so that a query that repeats a token gives the scores of the query that
\* holds it once.
C16_DistinctTermsOnce ==
    last.op = "search" =>
        \A i \in 1..Len(last.ret) :
            last.ret[i].score =
                round(scores_of_distinct_terms(pages, CurrentIndex,
                                               tokenize(last.args[1]))[last.ret[i].title])

\* C16 as amended: the score of a returned page is the sum of the BM25 terms
\* of the query tokens the index holds for it, a token counted as often as
\* the query holds it.
C16_EveryOccurrenceCounts ==
    last.op = "search" =>
        \A i \in 1..Len(last.ret) :
            LET tokens == tokenize(last.args[1])
                terms == TermsFor(CurrentIndex, tokens, last.ret[i].title)
            IN last.ret[i].score =
                  round(SumOver([w \in terms |->
                                   Count(tokens, w)
                                   * TermScore(pages, CurrentIndex, w, last.ret[i].title)],
                                terms))

\* a query that holds one token twice has returned two pages
C16_Witness ==
    /\ last.op = "search"
    /\ Len(tokenize(last.args[1])) = 2
    /\ Cardinality(Range(tokenize(last.args[1]))) = 1
    /\ Len(last.ret) = 2

\* C17: for top_k >= 0 search returns at most top_k results, and a result
\* never has a higher score than the result before it.
C17_RankedAndCut ==
    (last.op = "search" /\ last.args[2] >= 0) =>
        /\ Len(last.ret) <= last.args[2]
        /\ \A i, j \in 1..Len(last.ret) :
              i < j => last.ret[i].score >= last.ret[j].score

\* a search has left out the lower of two matching pages of different score
C17_Witness ==
    /\ last.op = "search" /\ last.args[2] = 1
    /\ Len(last.ret) = 1
    /\ \E t \in Matching(pages, last.args[1]) :
          round(scores(pages, CurrentIndex, tokenize(last.args[1]))[t]) < last.ret[1].score

\* C18 as claimed: the score search reports for a page that holds the query
\* term, rounded to 3 decimals, is greater than zero.
C18_ReportedPositive ==
    last.op = "score" => last.ret.reported > 0

\* C18 as amended: the idf of a term is greater than zero for every df in
\* [1, N] and so is the score before rounding; the reported score is zero
\* or more; it is greater than zero for a term that only one page of a
\* store of two pages holds.
C18_ScorePositive ==
    last.op = "score" =>
        /\ idf(last.args[1], last.args[2]) > 0
        /\ last.ret.raw > 0
        /\ last.ret.reported >= 0
        /\ (last.args[1] = 2 /\ last.args[2] = 1) => last.ret.reported > 0

\* a term that every page of the large store holds scores above zero and is
\* reported as 0.0
C18_Witness ==
    /\ last.op = "score"
    /\ last.args[1] = ManyPages /\ last.args[2] = ManyPages
    /\ last.ret.raw > 0
    /\ last.ret.reported = 0

\* C19: with idf, dl and avg_dl held fixed, a greater tf never gives a
\* smaller BM25 term, and the denominator of the term is never zero.
C19_MonotoneInTf ==
    last.op = "score" =>
        LET idf_value == idf(last.args[1], last.args[2])
            tf == last.args[3]
            dl == last.args[4]
            avg_dl == avg_dl_or_one([num |-> last.args[4] + last.args[5],
                                     den |-> last.args[1]])
        IN /\ idf_value >= 0 /\ avg_dl.num > 0
           /\ \A t \in 0..(MaxTokens + 1) :
                 /\ t >= 1 => denominator(t, dl, avg_dl).num # 0
                 /\ denominator(t, dl, avg_dl).den # 0
                 /\ t <= tf => contribution(idf_value, t, dl, avg_dl) <= last.ret.raw
                 /\ t >= tf => last.ret.raw <= contribution(idf_value, t, dl, avg_dl)

\* the term of a page that holds the query term twice among three tokens,
\* which is more than the term of one occurrence
C19_Witness ==
    /\ last.op = "score"
    /\ last.args[3] = 2 /\ last.args[4] = 3
    /\ last.ret.raw > contribution(idf(last.args[1], last.args[2]), 1, 3,
                                   [num |-> 3 + last.args[5], den |-> last.args[1]])

\* C22: a successful update(t, content, append) leaves as the body of t the
\* content when content is given, with or without append; the old body
\* followed by append when only append is given; the old body when neither
\* is given.
C22_UpdateBody ==
    [][\A t \in Titles, c \in Opt(TextIn), a \in Opt(AppendIn), g \in Opt(TagSets) :
          (/\ Calls("update") /\ last'.err = Ok
           /\ last'.args = <<t, c # None, a # None, g # None>>
           /\ Update(t, c, a, g)) =>
             pages'[t].content = (IF c # None THEN c[1]
                                  ELSE IF a # None THEN pages[t].content \o a[1]
                                  ELSE pages[t].content)]_vars

\* an update that was given both content and append has left the content
\* alone as the body
C22_Witness ==
    /\ last.op = "update" /\ last.err = Ok
    /\ last.args[2] /\ last.args[3]
    /\ pages[last.args[1]].content \in TextIn

\* C24: the keys of the document-length table are the live titles, each
\* with the number of tokens of the page's current content; the stored
\* average is the sum of the lengths divided by their number, and 0 when the
\* store holds no page.
C24_DocLengths ==
    /\ DOMAIN doc_lengths = DOMAIN pages
    /\ \A t \in DOMAIN pages : doc_lengths[t] = Len(tokenize(pages[t].content))
    /\ avg_doc_length.den > 0
    /\ IF DOMAIN pages = {}
       THEN avg_doc_length.num = 0
       ELSE avg_doc_length.num * Cardinality(DOMAIN pages)
               = avg_doc_length.den
                 * SumOver([t \in DOMAIN pages |-> Len(tokenize(pages[t].content))],
                           DOMAIN pages)

\* the delete of the last page has left no length and the average 0
C24_Witness ==
    /\ last.op = "delete" /\ last.err = Ok
    /\ DOMAIN pages = {}
    /\ DOMAIN doc_lengths = {}
    /\ avg_doc_length.num = 0

\* C25: every snapshot export() returns to the viewer thread is link-closed,
\* each title in the links list of a page of the snapshot being a key of the
\* snapshot's pages, and its page_count is the number of those keys, also
\* when export() runs beside a create or a delete of the writer.
C25_SnapshotLinkClosed ==
    viewer.pc = "done" =>
        /\ \A t \in DOMAIN viewer.served.pages :
              Range(viewer.served.pages[t].links) \subseteq DOMAIN viewer.served.pages
        /\ viewer.served.page_count = Cardinality(DOMAIN viewer.served.pages)

\* C21: search_tags(tag) returns the titles of the live pages whose tag
\* set holds the tag now, each once, in ascending order: not a page whose
\* tags an update has replaced, not a page that was deleted.
C21_SearchTags ==
    last.op = "search_tags" =>
        /\ last.err = Ok
        /\ Range(last.ret) = {t \in DOMAIN pages : last.args[1] \in pages[t].tags}
        /\ Len(last.ret) = Cardinality(Range(last.ret))
        /\ Ascending(last.ret)

\* search_tags has returned one of two live pages; the other page has been
\* updated and carries no tag
C21_Witness ==
    /\ last.op = "search_tags"
    /\ Len(last.ret) = 1
    /\ \E u \in DOMAIN pages \ Range(last.ret) :
          pages[u].tags = {} /\ pages[u].updated_at # pages[u].created_at

\* the calls that read
ReadOps == {"get", "titles", "toc", "backlinks", "search", "search_tags", "export"}

\* C23: get, titles, toc, backlinks, search, search_tags and export leave
\* the pages, the iteration, the inverted index with its keys, the document
\* lengths and the average length as they are, whether they succeed or fail.
C23_ReadsChangeNothing ==
    [][last'.op \in ReadOps => UNCHANGED <<store, iteration>>]_vars

\* a search has returned a page for a query one token of which the index
\* does not hold
C23_Witness ==
    /\ last.op = "search"
    /\ Len(last.ret) >= 1
    /\ Range(tokenize(last.args[1])) \ DOMAIN inverted_index # {}

\* C27: under a caller whose set_iteration values never go down, every live
\* page has created_at <= updated_at <= the iteration counter after every
\* step; set_iteration stores whatever value it is given and never raises,
\* and no other call changes the counter.
C27_Stamps ==
    [][/\ \A t \in DOMAIN pages' :
             /\ pages'[t].created_at <= pages'[t].updated_at
             /\ pages'[t].updated_at <= iteration'
        /\ (Calls("set_iteration") => last'.err = Ok /\ iteration' = last'.args[1])
        /\ (iteration' # iteration => Calls("set_iteration"))]_vars

\* a page made before the counter went up has been updated after it, beside
\* a page nobody has touched since
C27_Witness ==
    /\ last.op = "update" /\ last.err = Ok
    /\ \E t \in DOMAIN pages :
          pages[t].created_at < pages[t].updated_at /\ pages[t].updated_at = iteration
    /\ \E u \in DOMAIN pages : pages[u].updated_at < iteration

\* the postings the index holds for a title
PostingsOf(inv, title) == {w \in DOMAIN inv : title \in inv[w]}

\* C26: a create of a title that succeeds, and so every create of a title
\* that was deleted before, leaves the page with no links, with created_at
\* the iteration of that moment, with the given body and the index holding
\* the title under the tokens of that body and no other, and with no page
\* linking to it.
C26_FreshStart ==
    [][\A t \in Titles :
          Calls("create") /\ last'.err = Ok /\ last'.args = <<t>> =>
             /\ pages'[t].links = {}
             /\ pages'[t].created_at = iteration'
             /\ \E c \in TextIn : Create(t, c, None) /\ pages'[t].content = c
             /\ PostingsOf(inverted_index', t) = TokenSet(pages'[t].content)
             /\ doc_lengths'[t] = Len(tokenize(pages'[t].content))
             /\ backlinks(pages', t) = <<>>]_vars

\* a title has been made again: the latest delete found it with another
\* body, made at another iteration, with a link of its own and another page
\* linking to it
C26_Witness ==
    /\ last.op = "create" /\ last.err = Ok
    /\ \E old \in instants : \E t \in DOMAIN old \cap DOMAIN pages :
          /\ last.args = <<t>>
          /\ TokenSet(old[t].content) \ TokenSet(pages[t].content) # {}
          /\ old[t].created_at # pages[t].created_at
          /\ old[t].links # {}
          /\ \E u \in DOMAIN old \ {t} : t \in old[u].links /\ u \in DOMAIN pages

====
